---- MODULE Spec2Model ----
(***************************************************************************)
(* Model of the QKD simulation scripts BB84Ideal.py,                       *)
(* EntanglementBasedProtocolIdeal.py and EntanglementBasedProtocolNoisy.py.*)
(*                                                                         *)
(* Each script is a module-level trial loop around runProtocol().  The     *)
(* state is the module-level names of the script (QBER, avgQBER, allQBER,  *)
(* f, the loop index), the locals of the runProtocol call in progress and  *)
(* the QuantumCircuit objects that call has built.                         *)
(*                                                                         *)
(* Python lists are 0-based, the sequences here are 1-based: element i of  *)
(* a Python list is element i+1 here.  Python floats are modelled by the   *)
(* exact rational they approximate, kept as a reduced fraction.            *)
(***************************************************************************)
EXTENDS Integers, Sequences, FiniteSets, TLC

\* Number of trials of the run (10000 in the scripts).
numTests == 2
\* Bits per trial (50 in the scripts).
numBits == 2
\* 4-qubit blocks per entanglement trial: "length of initial string / 2"
\* (25 in the scripts, for the same 50 bits).
numPairings == numBits \div 2
\* The counter of repeated runProtocol() calls within one BB84 trial stops
\* counting here; the retry itself is never limited.
MaxRetries == 1

Pipelines == {"BB84Ideal", "EntIdeal", "EntNoisy"}
IsBB84(p) == p = "BB84Ideal"
IsNoisy(p) == p = "EntNoisy"

Min(a, b) == IF a < b THEN a ELSE b

RECURSIVE GCD(_, _)
GCD(a, b) == IF b = 0 THEN a ELSE GCD(b, a % b)

(***************************************************************************)
(* Numbers held by QBER, avgQBER and BER: a reduced fraction n/d, d > 0,   *)
(* or the string "null" that BB84's measureQBER returns.                   *)
(***************************************************************************)
Frac(n, d) == LET g == GCD(IF n < 0 THEN -n ELSE n, d)
              IN [tag |-> "num", n |-> n \div g, d |-> d \div g]
Null == [tag |-> "null", n |-> 0, d |-> 1]
Unset == [tag |-> "unset", n |-> 0, d |-> 1]
Zero == Frac(0, 1)
One == Frac(1, 1)
FracAdd(x, y) == Frac(x.n * y.d + y.n * x.d, x.d * y.d)
FracDiv(x, k) == Frac(x.n, x.d * k)
FracSub1(x) == Frac(x.d - x.n, x.d)
FracLeq(x, y) == x.n * y.d <= y.n * x.d
InUnit(x) == x.tag = "num" /\ FracLeq(Zero, x) /\ FracLeq(x, One)

(***************************************************************************)
(* QuantumCircuit objects.  A gate is <<name, a, b>>.  A circuit records   *)
(* its width, the operations appended so far, and, for every run on the    *)
(* simulator, how many operations it held when it was run.                 *)
(***************************************************************************)
GateH(q) == <<"h", q, q>>
GateX(q) == <<"x", q, q>>
GateZ(q) == <<"z", q, q>>
GateCX(c, tg) == <<"cx", c, tg>>
Barrier == <<"barrier", 0, 0>>
Measure(q, c) == <<"measure", q, c>>

QuantumCircuit(nq) == [nq |-> nq, ops |-> <<>>, ran |-> <<>>]
AppendOps(qc, gs) == [qc EXCEPT !.ops = @ \o gs]
MarkRun(qc) == [qc EXCEPT !.ran = Append(@, Len(qc.ops))]

(***************************************************************************)
(* The simulator: backend_sim.run(qc, shots=1, memory=True).  The state    *)
(* vector is a function from basis index (qubit q is binary digit q) to an *)
(* integer amplitude; every gate used has real entries and the common      *)
(* factor 1/sqrt(2) of each Hadamard is left out, so the probability of    *)
(* basis state k is psi[k]^2 divided by the sum of all psi[j]^2.           *)
(***************************************************************************)
Pow2(q) == 2 ^ q
Bit(k, q) == (k \div Pow2(q)) % 2
Flip(k, q) == IF Bit(k, q) = 0 THEN k + Pow2(q) ELSE k - Pow2(q)
ZeroState(nq) == [k \in 0..(Pow2(nq) - 1) |-> IF k = 0 THEN 1 ELSE 0]

ApplyGate(psi, g) ==
    CASE g[1] = "h" ->
           [k \in DOMAIN psi |->
               IF Bit(k, g[2]) = 0 THEN psi[k] + psi[Flip(k, g[2])]
                                   ELSE psi[Flip(k, g[2])] - psi[k]]
      [] g[1] = "x" -> [k \in DOMAIN psi |-> psi[Flip(k, g[2])]]
      [] g[1] = "z" ->
           [k \in DOMAIN psi |-> IF Bit(k, g[2]) = 1 THEN 0 - psi[k] ELSE psi[k]]
      [] g[1] = "cx" ->
           [k \in DOMAIN psi |->
               IF Bit(k, g[2]) = 1 THEN psi[Flip(k, g[3])] ELSE psi[k]]
      [] OTHER -> psi

RECURSIVE Evolve(_, _, _)
Evolve(psi, ops, i) ==
    IF i > Len(ops) THEN psi ELSE Evolve(ApplyGate(psi, ops[i]), ops, i + 1)

FinalState(qc) == Evolve(ZeroState(qc.nq), qc.ops, 1)

\* Classical bit c after the run that ends in basis state k: the qubit of the
\* last measure into c, or 0 when nothing is measured into c.
RECURSIVE ClbitFrom(_, _, _, _)
ClbitFrom(ops, c, k, i) ==
    IF i = 0 THEN 0
    ELSE IF ops[i][1] = "measure" /\ ops[i][3] = c THEN Bit(k, ops[i][2])
    ELSE ClbitFrom(ops, c, k, i - 1)

\* get_memory()[0], most significant classical bit first, as a sequence of bits.
Memory(qc, k) == [j \in 1..qc.nq |-> ClbitFrom(qc.ops, qc.nq - j, k, Len(qc.ops))]

AllMemory(nq) == [1..nq -> {0, 1}]

\* Weight of a memory string: the sum of psi[k]^2 over the basis states read as it.
RECURSIVE SumSq(_, _, _, _)
SumSq(qc, psi, m, k) ==
    IF k < 0 THEN 0
    ELSE (IF Memory(qc, k) = m THEN psi[k] * psi[k] ELSE 0) + SumSq(qc, psi, m, k - 1)

Weight(qc, m) == SumSq(qc, FinalState(qc), m, Pow2(qc.nq) - 1)

\* The memory strings one shot can return.  The ideal qasm simulator returns a
\* string of nonzero probability; under the device noise model every string has
\* nonzero probability.
Shots(qc, noisy) ==
    IF noisy THEN AllMemory(qc.nq)
    ELSE LET psi == FinalState(qc)
         IN {Memory(qc, k) : k \in {j \in DOMAIN psi : psi[j] # 0}}

(***************************************************************************)
(* BB84Ideal.py                                                            *)
(***************************************************************************)
Bases == {0, 1}

\* EncodeQubit with the bit-flip left out of the X-basis encoding of 1.
EncodeQubit_NoFlipInX(bit, basis) ==
    AppendOps(QuantumCircuit(1),
              (IF basis = 0
                 THEN (IF bit = 0 THEN <<>> ELSE <<GateX(0)>>)
                 ELSE <<GateH(0)>>)
              \o <<Barrier>>)

\* One pass of encode_message's loop: the circuit built for one bit.
EncodeQubit(bit, basis) ==
    AppendOps(QuantumCircuit(1),
              (IF basis = 0
                 THEN (IF bit = 0 THEN <<>> ELSE <<GateX(0)>>)
                 ELSE (IF bit = 0 THEN <<GateH(0)>> ELSE <<GateX(0), GateH(0)>>))
              \o <<Barrier>>)

encode_message(bits, bases) ==
    [i \in 1..numBits |-> EncodeQubit(bits[i], bases[i])]

\* MeasureQubit without the rotation before an X-basis measurement.
MeasureQubit_NoRotation(qc, basis) ==
    MarkRun(AppendOps(qc,
              IF basis = 0 \/ basis = 1 THEN <<Measure(0, 0)>> ELSE <<>>))

\* One pass of measure_message's loop up to the simulator call: the gates the
\* receiver appends to the circuit object it was handed, and the run.
MeasureQubit(qc, basis) ==
    MarkRun(AppendOps(qc,
              IF basis = 0 THEN <<Measure(0, 0)>>
              ELSE IF basis = 1 THEN <<GateH(0), Measure(0, 0)>>
              ELSE <<>>))

\* The lists measure_message can return: int(measuredBits[0]) per circuit.
measure_message(message, bases) ==
    {r \in [1..numBits -> {0, 1}] :
        \A q \in 1..numBits :
            \E m \in Shots(MeasureQubit(message[q], bases[q]), FALSE) : r[q] = m[1]}

\* The loop of discardBits from position i on.
RECURSIVE discardBits_BB84_from(_, _, _, _, _)
discardBits_BB84_from(i, results, aliceBits, aliceBases, bobBases) ==
    IF i > numBits THEN <<<<>>, <<>>>>
    ELSE LET rest == discardBits_BB84_from(i + 1, results, aliceBits, aliceBases, bobBases)
         IN IF aliceBases[i] = bobBases[i]
              THEN <<<<results[i]>> \o rest[1], <<aliceBits[i]>> \o rest[2]>>
              ELSE rest

\* Returns <<newResults, newAliceBits>>.
discardBits_BB84(results, aliceBits, aliceBases, bobBases) ==
    discardBits_BB84_from(1, results, aliceBits, aliceBases, bobBases)

\* measureQBER with the entanglement scripts' empty-key value.
measureQBER_BB84_OneOnEmpty(newResults, newAliceBits) ==
    IF Len(newResults) = 0 THEN One
    ELSE Frac(Cardinality({i \in 1..Len(newResults) : newResults[i] # newAliceBits[i]}),
              Len(newResults))

measureQBER_BB84(newResults, newAliceBits) ==
    IF Len(newResults) = 0 THEN Null
    ELSE Frac(Cardinality({i \in 1..Len(newResults) : newResults[i] # newAliceBits[i]}),
              Len(newResults))

(***************************************************************************)
(* EntanglementBasedProtocolIdeal.py, EntanglementBasedProtocolNoisy.py    *)
(***************************************************************************)
Pairs == {0, 1, 2}

\* <<pair1, pair2>> for a pairing label.
Pairing(p) ==
    IF p = 0 THEN <<<<0, 1>>, <<2, 3>>>>
    ELSE IF p = 1 THEN <<<<0, 2>>, <<1, 3>>>>
    ELSE <<<<0, 3>>, <<1, 2>>>>

createBellState(qubit0, qubit1) == <<GateH(qubit0), GateCX(qubit0, qubit1)>>

\* BlockGates with the bit-flip of the second pair left out for block (1, 0).
BlockGates_NoFlip10(b0, b1, pair1, pair2) ==
    IF b0 = 0 /\ b1 = 0 THEN <<GateX(pair2[1])>>
    ELSE IF b0 = 0 /\ b1 = 1 THEN <<GateX(pair1[1])>>
    ELSE IF b0 = 1 /\ b1 = 0 THEN <<GateZ(pair1[2]), GateZ(pair2[1])>>
    ELSE IF b0 = 1 /\ b1 = 1 THEN <<GateZ(pair1[1]), GateX(pair1[2]), GateZ(pair2[2])>>
    ELSE <<>>

\* The gates encodeMessage applies for the block value (b0, b1).
BlockGates(b0, b1, pair1, pair2) ==
    IF b0 = 0 /\ b1 = 0 THEN <<GateX(pair2[1])>>
    ELSE IF b0 = 0 /\ b1 = 1 THEN <<GateX(pair1[1])>>
    ELSE IF b0 = 1 /\ b1 = 0 THEN <<GateZ(pair1[2]), GateZ(pair2[1]), GateX(pair2[2])>>
    ELSE IF b0 = 1 /\ b1 = 1 THEN <<GateZ(pair1[1]), GateX(pair1[2]), GateZ(pair2[2])>>
    ELSE <<>>

\* One pass of encodeMessage's loop: the circuit built for one block.
EncodeBlock(b0, b1, p) ==
    LET pair1 == Pairing(p)[1]
        pair2 == Pairing(p)[2]
    IN AppendOps(QuantumCircuit(4),
                 createBellState(pair1[1], pair1[2]) \o createBellState(pair2[1], pair2[2])
                 \o <<Barrier>> \o BlockGates(b0, b1, pair1, pair2) \o <<Barrier>>)

encodeMessage(bits, pairs) ==
    [i \in 1..numPairings |-> EncodeBlock(bits[2 * i - 1], bits[2 * i], pairs[i])]

\* One pass of decodeMessage's loop up to the simulator call.
DecodeBlock(qc, p) ==
    LET pair1 == Pairing(p)[1]
        pair2 == Pairing(p)[2]
    IN MarkRun(AppendOps(qc,
          <<GateCX(pair1[1], pair1[2]), GateH(pair1[1]),
            GateCX(pair2[1], pair2[2]), GateH(pair2[1]),
            Measure(pair1[1], 3), Measure(pair1[2], 2),
            Measure(pair2[1], 1), Measure(pair2[2], 0)>>))

\* The 4-bit result mapped to the two bits appended to results.
Lookup(m) ==
    IF m = <<0, 0, 0, 1>> THEN <<0, 0>>
    ELSE IF m = <<0, 1, 0, 0>> THEN <<0, 1>>
    ELSE IF m = <<1, 0, 1, 1>> THEN <<1, 0>>
    ELSE <<1, 1>>

\* The lists decodeMessage can return.
decodeMessage(message, pairs, noisy) ==
    {r \in [1..(2 * numPairings) -> {0, 1}] :
        \A i \in 1..numPairings :
            \E m \in Shots(DecodeBlock(message[i], pairs[i]), noisy) :
                <<r[2 * i - 1], r[2 * i]>> = Lookup(m)}

measureBER(aliceBits, results) ==
    FracSub1(Frac(Cardinality({i \in 1..numPairings :
                                  /\ aliceBits[2 * i - 1] = results[2 * i - 1]
                                  /\ aliceBits[2 * i] = results[2 * i]}),
                  numPairings))

\* discardBits_Ent_from taking block i from results[i], results[i+1].
RECURSIVE discardBits_Ent_from_BitIndex(_, _, _, _, _, _)
discardBits_Ent_from_BitIndex(i, n, results, aliceBits, alicePairs, bobPairs) ==
    IF i > n THEN <<<<>>, <<>>>>
    ELSE LET rest == discardBits_Ent_from_BitIndex(i + 1, n, results, aliceBits,
                                                   alicePairs, bobPairs)
         IN IF alicePairs[i] = bobPairs[i]
              THEN <<<<results[i], results[i + 1]>> \o rest[1],
                     <<aliceBits[i], aliceBits[i + 1]>> \o rest[2]>>
              ELSE rest

\* discardBits' loop from block i on, n being the module-level numPairings.
RECURSIVE discardBits_Ent_from(_, _, _, _, _, _)
discardBits_Ent_from(i, n, results, aliceBits, alicePairs, bobPairs) ==
    IF i > n THEN <<<<>>, <<>>>>
    ELSE LET rest == discardBits_Ent_from(i + 1, n, results, aliceBits, alicePairs, bobPairs)
         IN IF alicePairs[i] = bobPairs[i]
              THEN <<<<results[2 * i - 1], results[2 * i]>> \o rest[1],
                     <<aliceBits[2 * i - 1], aliceBits[2 * i]>> \o rest[2]>>
              ELSE rest

\* discardBits in a script whose module-level numPairings is n.
discardBits_Ent_at(n, results, aliceBits, alicePairs, bobPairs) ==
    discardBits_Ent_from(1, n, results, aliceBits, alicePairs, bobPairs)

\* Returns <<newResults, newAliceBits>>.
discardBits_Ent(results, aliceBits, alicePairs, bobPairs) ==
    discardBits_Ent_at(numPairings, results, aliceBits, alicePairs, bobPairs)

\* measureQBER dividing the block count by len instead of len/2.
measureQBER_Ent_DividesByLen(newResults, newAliceBits) ==
    IF Len(newResults) = 0 THEN One
    ELSE FracSub1(Frac(Cardinality({i \in 1..(Len(newResults) \div 2) :
                                       /\ newResults[2 * i - 1] = newAliceBits[2 * i - 1]
                                       /\ newResults[2 * i] = newAliceBits[2 * i]}),
                       Len(newResults)))

\* QBER counts the blocks whose two bits both agree, divides by len/2 and
\* subtracts from 1; the empty key returns the integer 1.
measureQBER_Ent(newResults, newAliceBits) ==
    IF Len(newResults) = 0 THEN One
    ELSE FracSub1(Frac(2 * Cardinality({i \in 1..(Len(newResults) \div 2) :
                                           /\ newResults[2 * i - 1] = newAliceBits[2 * i - 1]
                                           /\ newResults[2 * i] = newAliceBits[2 * i]}),
                       Len(newResults)))

(***************************************************************************)
(* State.  The module-level names of a script and the locals of the        *)
(* runProtocol call in progress.                                           *)
(***************************************************************************)
VARIABLES
    pipeline,     \* which script runs
    evePresent,   \* the module-level toggle of the entanglement scripts;
                  \* BB84Ideal.py defines no such name and reads none
    pc,           \* "call": runProtocol() is about to run; "eve", "bob", "score":
                  \* inside runProtocol; "returned"; "while": BB84's sentinel
                  \* test; "log": the rest of the loop body; "close"; "done"
    t,            \* trials completed (the for loop's index)
    QBER, avgQBER, allQBER,
    f,            \* the result file: [open, lines]
    aliceBits,    \* alice_bits / aliceBits
    aliceBases,   \* alice_bases / alicePairs
    eveBases,     \* eve_bases / evePairs
    eveResults,   \* intercepted_message / eveResults
    bobBases,     \* bob_bases / bobPairs
    bobResults,   \* bob_results / bobResults
    newResults, newAliceBits, BER,
    circuits,     \* the QuantumCircuit objects of the current call, by identity
    message,      \* identities of the circuits the sender encoded
    eveMessage,   \* identities of new_message / eveMessage
    received,     \* identities of the circuits handed to the receiver's decode
    calls,        \* runProtocol() calls made in this run (stops at MaxCalls)
    retries,      \* repeated calls within the current trial (stops at MaxRetries)
    outcomes      \* the trial loop's view of runProtocol(): the sifted keys a
                  \* call can return under this configuration, fixed for the run

config == <<pipeline, evePresent, outcomes>>
results == <<t, QBER, avgQBER, allQBER, f>>
counters == <<calls, retries>>
aliceVars == <<aliceBits, aliceBases, message>>
eveVars == <<eveBases, eveResults, eveMessage>>
bobVars == <<bobBases, bobResults, received>>
scoreVars == <<newResults, newAliceBits, BER>>
vars == <<config, pc, results, counters, aliceVars, eveVars, bobVars, scoreVars, circuits>>

MaxCalls == numTests + MaxRetries

\* Positions of a trial, bits of a trial and choices per position.
Positions(p) == IF IsBB84(p) THEN 1..numBits ELSE 1..numPairings
BitCount(p) == IF IsBB84(p) THEN numBits ELSE 2 * numPairings
Choices(p) == IF IsBB84(p) THEN Bases ELSE Pairs

\* EveStage for a BB84 script that obeys the toggle.
EveStage_ToggleEverywhere(p, toggle) == toggle

\* BB84Ideal.runProtocol always runs the eavesdropper's lines; the
\* entanglement runProtocol runs them under "if (evePresent)".
EveStage(p, toggle) == IsBB84(p) \/ toggle

Encode(p, bits, choice) ==
    IF IsBB84(p) THEN encode_message(bits, choice) ELSE encodeMessage(bits, choice)

\* The circuit objects after a decode has appended to them and run them.
Decoded(p, qcs, choice) ==
    [i \in DOMAIN qcs |->
        IF IsBB84(p) THEN MeasureQubit(qcs[i], choice[i])
                     ELSE DecodeBlock(qcs[i], choice[i])]

DecodeResults(p, qcs, choice) ==
    IF IsBB84(p) THEN measure_message(qcs, choice)
    ELSE decodeMessage(qcs, choice, IsNoisy(p))

discardBits(p, res, bits, aBases, bBases) ==
    IF IsBB84(p) THEN discardBits_BB84(res, bits, aBases, bBases)
    ELSE discardBits_Ent(res, bits, aBases, bBases)

measureQBER(p, newRes, newBits) ==
    IF IsBB84(p) THEN measureQBER_BB84(newRes, newBits)
    ELSE measureQBER_Ent(newRes, newBits)

Deref(heap, ids) == [i \in DOMAIN ids |-> heap[ids[i]]]

\* The heap with the objects named by ids replaced by qcs.
Store(heap, ids, qcs) ==
    [j \in DOMAIN heap |->
        IF \E i \in DOMAIN ids : ids[i] = j
          THEN qcs[CHOOSE i \in DOMAIN ids : ids[i] = j]
          ELSE heap[j]]

Ids(from, n) == [i \in 1..n |-> from + i - 1]

Start ==
    /\ pipeline \in Pipelines
    /\ evePresent \in BOOLEAN
    /\ pc = IF numTests > 0 THEN "call" ELSE "close"
    /\ t = 0
    /\ QBER = Unset
    /\ avgQBER = Zero
    /\ allQBER = <<>>
    /\ f = [open |-> TRUE, lines |-> <<>>]
    /\ aliceBits = <<>> /\ aliceBases = <<>> /\ message = <<>>
    /\ eveBases = <<>> /\ eveResults = <<>> /\ eveMessage = <<>>
    /\ bobBases = <<>> /\ bobResults = <<>> /\ received = <<>>
    /\ newResults = <<>> /\ newAliceBits = <<>> /\ BER = Unset
    /\ circuits = <<>>
    /\ calls = 0
    /\ retries = 0

Init == Start /\ outcomes = {}

(***************************************************************************)
(* One runProtocol() call, statement by statement.                         *)
(***************************************************************************)

\* The sender's random bits and bases/pairings and encode_message /
\* encodeMessage; control passes to `next'.
EncodeThen(next) ==
    /\ pc = "call"
    /\ \E bits \in [1..BitCount(pipeline) -> {0, 1}],
          choice \in [Positions(pipeline) -> Choices(pipeline)] :
          /\ aliceBits' = bits
          /\ aliceBases' = choice
          /\ circuits' = Encode(pipeline, bits, choice)
          /\ message' = Ids(1, Len(Encode(pipeline, bits, choice)))
    /\ calls' = Min(calls + 1, MaxCalls)
    /\ pc' = next
    /\ UNCHANGED <<config, results, retries, eveVars, bobVars, scoreVars>>

\* runProtocol, the sender's part.
AliceEncode == EncodeThen(IF EveStage(pipeline, evePresent) THEN "eve" ELSE "bob")

\* The eavesdropper: BB84Ideal.runProtocol's lines under "OMIT IF EVE IS NOT
\* PRESENT", eveMeasureAndDecode in the entanglement scripts.  She decodes the
\* sender's circuit objects and encodes her results into new objects.
EveIntercept ==
    /\ pc = "eve"
    /\ \E choice \in [Positions(pipeline) -> Choices(pipeline)] :
         \E res \in DecodeResults(pipeline, Deref(circuits, message), choice) :
            /\ eveBases' = choice
            /\ eveResults' = res
            /\ circuits' = Store(circuits, message,
                                 Decoded(pipeline, Deref(circuits, message), choice))
                           \o Encode(pipeline, res, choice)
            /\ eveMessage' = Ids(Len(circuits) + 1, Len(Encode(pipeline, res, choice)))
    /\ pc' = "bob"
    /\ UNCHANGED <<config, results, counters, aliceVars, bobVars, scoreVars>>

\* The receiver's random bases/pairings and measure_message / decodeMessage
\* applied to the circuit objects named by ids.
DecodeOf(ids) ==
    /\ pc = "bob"
    /\ \E choice \in [Positions(pipeline) -> Choices(pipeline)] :
         \E res \in DecodeResults(pipeline, Deref(circuits, ids), choice) :
            /\ bobBases' = choice
            /\ bobResults' = res
            /\ circuits' = Store(circuits, ids,
                                 Decoded(pipeline, Deref(circuits, ids), choice))
    /\ received' = ids
    /\ pc' = "score"
    /\ UNCHANGED <<config, results, counters, aliceVars, eveVars, scoreVars>>

\* Forwarded with the receiver handed the sender's list whatever the stage did.
Forwarded_SendersCircuits == message

\* The message variable as the receiver's decode sees it.
Forwarded == IF EveStage(pipeline, evePresent) THEN eveMessage ELSE message

\* runProtocol, the receiver's part.
BobMeasure == DecodeOf(Forwarded)

\* runProtocol, last part: measureBER (entanglement), discardBits, measureQBER
\* and the return value.
Reconcile ==
    /\ pc = "score"
    /\ LET kept == discardBits(pipeline, bobResults, aliceBits, aliceBases, bobBases)
       IN /\ newResults' = kept[1]
          /\ newAliceBits' = kept[2]
          /\ QBER' = measureQBER(pipeline, kept[1], kept[2])
    /\ BER' = IF IsBB84(pipeline) THEN Unset ELSE measureBER(aliceBits, bobResults)
    /\ pc' = "returned"
    /\ UNCHANGED <<config, t, avgQBER, allQBER, f, counters,
                   aliceVars, eveVars, bobVars, circuits>>

Next == AliceEncode \/ EveIntercept \/ BobMeasure \/ Reconcile

Spec == Init /\ [][Next]_vars

(***************************************************************************)
(* The functions composed without the eavesdropper's lines: the receiver   *)
(* measures the circuits encode_message returned (BB84).                   *)
(***************************************************************************)
DirectInit == Init /\ pipeline = "BB84Ideal" /\ evePresent = FALSE
DirectEncode == EncodeThen("bob")
DirectMeasure == DecodeOf(message)
DirectNext == DirectEncode \/ DirectMeasure \/ Reconcile
DirectSpec == DirectInit /\ [][DirectNext]_vars

(***************************************************************************)
(* discardBits and measureQBER applied to sequences of every content:      *)
(* numBits positions in BB84, and in the entanglement scripts every        *)
(* module-level numPairings from 1 to SiftBlocks.                          *)
(***************************************************************************)
SiftBlocks == numPairings + 1
SiftPositions(p) == IF IsBB84(p) THEN {numBits} ELSE 1..SiftBlocks

\* The arguments runProtocol passes to discardBits.
SiftInputs ==
    /\ pc = "call"
    /\ \E n \in SiftPositions(pipeline) :
         \E bits \in [1..(IF IsBB84(pipeline) THEN n ELSE 2 * n) -> {0, 1}],
            res \in [1..(IF IsBB84(pipeline) THEN n ELSE 2 * n) -> {0, 1}],
            aChoice \in [1..n -> Choices(pipeline)],
            bChoice \in [1..n -> Choices(pipeline)] :
            /\ aliceBits' = bits
            /\ bobResults' = res
            /\ aliceBases' = aChoice
            /\ bobBases' = bChoice
    /\ pc' = "score"
    /\ UNCHANGED <<config, results, counters, message, eveVars, received,
                   scoreVars, circuits>>

\* newResults, newAliceBits = discardBits(...); QBER = measureQBER(...).
Sift ==
    /\ pc = "score"
    /\ LET kept == IF IsBB84(pipeline)
                     THEN discardBits_BB84(bobResults, aliceBits, aliceBases, bobBases)
                     ELSE discardBits_Ent_at(Len(aliceBases), bobResults, aliceBits,
                                             aliceBases, bobBases)
       IN /\ newResults' = kept[1]
          /\ newAliceBits' = kept[2]
          /\ QBER' = measureQBER(pipeline, kept[1], kept[2])
    /\ pc' = "returned"
    /\ UNCHANGED <<config, t, avgQBER, allQBER, f, counters, BER,
                   aliceVars, eveVars, bobVars, circuits>>

SiftNext == SiftInputs \/ Sift
SiftSpec == Init /\ [][SiftNext]_vars

(***************************************************************************)
(* The trial loop, with each runProtocol() call as one step.               *)
(***************************************************************************)

\* The circuit lists the receiver can be handed for the sender's message msg.
ForwardedMessages(p, toggle, msg) ==
    IF EveStage(p, toggle)
      THEN UNION {{Encode(p, res, choice) : res \in DecodeResults(p, msg, choice)} :
                     choice \in [Positions(p) -> Choices(p)]}
      ELSE {msg}

\* The sifted pairs <<newResults, newAliceBits>> one runProtocol() call can
\* reach, over all random draws and all measurement outcomes.
runProtocol(p, toggle) ==
    UNION {
      UNION {
        UNION {{discardBits(p, res, bits, aChoice, bChoice) :
                    res \in DecodeResults(p, fwd, bChoice)} :
               bChoice \in [Positions(p) -> Choices(p)]} :
        fwd \in ForwardedMessages(p, toggle, Encode(p, bits, aChoice))} :
      bits \in [1..BitCount(p) -> {0, 1}], aChoice \in [Positions(p) -> Choices(p)]}

\* QBER = runProtocol(): of the call only its sifted key and QBER are kept.
RunProtocol ==
    /\ pc = "call"
    /\ \E kept \in outcomes :
          /\ newResults' = kept[1]
          /\ newAliceBits' = kept[2]
          /\ QBER' = measureQBER(pipeline, kept[1], kept[2])
    /\ calls' = Min(calls + 1, MaxCalls)
    /\ pc' = IF IsBB84(pipeline) THEN "while" ELSE "log"
    /\ UNCHANGED <<config, t, avgQBER, allQBER, f, retries,
                   aliceVars, eveVars, bobVars, BER, circuits>>

\* Retry with a retry limit: after MaxRetries repeats the sentinel is accepted.
Retry_Bounded ==
    /\ pc = "while"
    /\ QBER = Null
    /\ retries' = Min(retries + 1, MaxRetries)
    /\ pc' = IF retries >= MaxRetries THEN "log" ELSE "call"
    /\ UNCHANGED <<config, results, calls, aliceVars, eveVars, bobVars, scoreVars, circuits>>

\* BB84's "while (QBER == "null"): QBER = runProtocol()".
Retry ==
    /\ pc = "while"
    /\ QBER = Null
    /\ retries' = Min(retries + 1, MaxRetries)
    /\ pc' = "call"
    /\ UNCHANGED <<config, results, calls, aliceVars, eveVars, bobVars, scoreVars, circuits>>

\* str(QBER) + "\n"
Line(q) == [text |-> q, newline |-> TRUE]

\* Log with the sentinel tested once ("if") and the result logged anyway.
Log_SentinelNotExcluded ==
    /\ pc \in {"log", "while"}
    /\ avgQBER' = FracAdd(avgQBER, QBER)
    /\ allQBER' = Append(allQBER, QBER)
    /\ f' = [f EXCEPT !.lines = Append(@, Line(QBER))]
    /\ t' = t + 1
    /\ retries' = 0
    /\ pc' = IF t + 1 < numTests THEN "call" ELSE "close"
    /\ newResults' = <<>> /\ newAliceBits' = <<>>
    /\ UNCHANGED <<config, QBER, calls, aliceVars, eveVars, bobVars, BER, circuits>>

\* Log inserting the new value at the front of the list.
Log_Prepends ==
    /\ \/ pc = "log"
       \/ pc = "while" /\ QBER # Null
    /\ avgQBER' = FracAdd(avgQBER, QBER)
    /\ allQBER' = <<QBER>> \o allQBER
    /\ f' = [f EXCEPT !.lines = Append(@, Line(QBER))]
    /\ t' = t + 1
    /\ retries' = 0
    /\ pc' = IF t + 1 < numTests THEN "call" ELSE "close"
    /\ newResults' = <<>> /\ newAliceBits' = <<>>
    /\ UNCHANGED <<config, QBER, calls, aliceVars, eveVars, bobVars, BER, circuits>>

\* The rest of the loop body: avgQBER += QBER, allQBER.append(QBER),
\* f.write(...), and the step of the for loop.
Log ==
    /\ \/ pc = "log"
       \/ pc = "while" /\ QBER # Null
    /\ avgQBER' = FracAdd(avgQBER, QBER)
    /\ allQBER' = Append(allQBER, QBER)
    /\ f' = [f EXCEPT !.lines = Append(@, Line(QBER))]
    /\ t' = t + 1
    /\ retries' = 0
    /\ pc' = IF t + 1 < numTests THEN "call" ELSE "close"
    /\ newResults' = <<>> /\ newAliceBits' = <<>>
    /\ UNCHANGED <<config, QBER, calls, aliceVars, eveVars, bobVars, BER, circuits>>

\* f.close() and avgQBER /= numTests.
Finish ==
    /\ pc = "close"
    /\ f' = [f EXCEPT !.open = FALSE]
    /\ avgQBER' = FracDiv(avgQBER, numTests)
    /\ pc' = "done"
    /\ UNCHANGED <<config, t, QBER, allQBER, counters,
                   aliceVars, eveVars, bobVars, scoreVars, circuits>>

DriverNext == RunProtocol \/ Retry \/ Log \/ Finish

DriverInit == Start /\ outcomes = runProtocol(pipeline, evePresent)

DriverSpec == DriverInit /\ [][DriverNext]_vars

\* The interpreter always executes the next statement.
FairDriverSpec == DriverSpec /\ WF_vars(DriverNext)

(***************************************************************************)
(* Properties                                                              *)
(***************************************************************************)
Scored == pc \in {"returned", "while", "log"}
Measured == pc \in {"score", "returned"}

\* C1: BB84 without eavesdropper on the ideal simulator: a bit encoded and
\* measured in the same basis is read back exactly, so at every position whose
\* bases match the receiver's result is the sender's bit, the sifted sequences
\* agree everywhere, and a non-empty sifted key has QBER 0 (with identical
\* bases the whole bit string is recovered).
C1_SameBasisRoundTrip ==
    Measured =>
        /\ \A i \in 1..numBits :
              aliceBases[i] = bobBases[i] => bobResults[i] = aliceBits[i]
        /\ aliceBases = bobBases => bobResults = aliceBits
        /\ Scored =>
              /\ newResults = newAliceBits
              /\ Len(newResults) > 0 => QBER = Zero
              /\ aliceBases = bobBases => Len(newResults) = numBits /\ QBER = Zero

C1_Witness ==
    /\ pc = "returned"
    /\ aliceBits[1] = 1 /\ aliceBases[1] = 1
    /\ bobBases = aliceBases
    /\ bobResults = aliceBits
    /\ QBER = Zero

\* C2: entanglement pipeline, ideal simulator, evePresent off: a block decoded
\* with the pairing it was encoded with yields the sender's two bits, for every
\* block value and pairing; when every block is recovered measureBER is 0.
C2_SamePairingRoundTrip ==
    (pipeline = "EntIdeal" /\ ~evePresent /\ Measured) =>
        /\ \A i \in 1..numPairings :
              aliceBases[i] = bobBases[i] =>
                  /\ bobResults[2 * i - 1] = aliceBits[2 * i - 1]
                  /\ bobResults[2 * i] = aliceBits[2 * i]
        /\ (pc = "returned" /\ bobResults = aliceBits) => BER = Zero
        /\ (pc = "returned" /\ aliceBases = bobBases) => BER = Zero

C2_Witness ==
    /\ pipeline = "EntIdeal" /\ ~evePresent /\ pc = "returned"
    /\ aliceBits[1] = 1 /\ aliceBits[2] = 0
    /\ aliceBases[1] = 2 /\ bobBases = aliceBases
    /\ bobResults = aliceBits
    /\ BER = Zero

\* q is the number n/d.
IsRatio(q, n, d) == q.tag = "num" /\ q.n * d = n * q.d

BitErrors == Cardinality({i \in 1..Len(newResults) : newResults[i] # newAliceBits[i]})
BlockErrors ==
    Cardinality({i \in 1..(Len(newResults) \div 2) :
                    \/ newResults[2 * i - 1] # newAliceBits[2 * i - 1]
                    \/ newResults[2 * i] # newAliceBits[2 * i]})

\* C3 as claimed: in both pipelines the QBER of a non-empty sifted key is the
\* number of mismatched bit positions divided by the number of kept bits.
C3_BitFractionEverywhere ==
    (Scored /\ Len(newResults) > 0) => IsRatio(QBER, BitErrors, Len(newResults))

\* C3: the QBER of a non-empty sifted key is, in BB84, the number of mismatched
\* bit positions divided by the number of kept bits and, in the entanglement
\* pipeline, the number of kept 2-bit blocks that differ in at least one bit
\* divided by the number of kept blocks.
C3_BitOrBlockFraction ==
    (Scored /\ Len(newResults) > 0) =>
        IF IsBB84(pipeline)
          THEN IsRatio(QBER, BitErrors, Len(newResults))
          ELSE IsRatio(QBER, BlockErrors, Len(newResults) \div 2)

C3_Witness ==
    /\ ~IsBB84(pipeline) /\ pc = "returned"
    /\ Len(newResults) = 2
    /\ newResults[1] = newAliceBits[1] /\ newResults[2] # newAliceBits[2]
    /\ QBER = One

\* C4: measureQBER of a non-empty key lies in [0,1]; of an empty key it is the
\* string "null" in BB84 and 1 in the entanglement pipeline; nothing else is
\* returned.
C4_RangeOrSentinel ==
    Scored =>
        /\ Len(newResults) = Len(newAliceBits)
        /\ QBER.tag \in {"num", "null"}
        /\ Len(newResults) > 0 => InUnit(QBER)
        /\ Len(newResults) = 0 => QBER = (IF IsBB84(pipeline) THEN Null ELSE One)

C4_Witness ==
    /\ IsBB84(pipeline) /\ pc = "returned"
    /\ \A i \in 1..numBits : aliceBases[i] # bobBases[i]
    /\ newResults = <<>>
    /\ QBER = Null

\* Positions whose choices agree, bits per position, and the place among the
\* kept positions of position i.
KeptPositions == {i \in DOMAIN aliceBases : aliceBases[i] = bobBases[i]}
Width == IF IsBB84(pipeline) THEN 1 ELSE 2
Rank(i) == Cardinality({k \in KeptPositions : k <= i})

\* C5: discardBits keeps position i (one bit in BB84, the two bits of block i
\* in the entanglement pipeline) exactly when the sender's and the receiver's
\* choice at i agree; both returned sequences have the same length, at most the
\* input length, keep the original order, and hold at equal indices the
\* receiver's and the sender's bit of the same original position.
C5_SiftKeepsMatching ==
    Scored =>
        /\ Len(newResults) = Width * Cardinality(KeptPositions)
        /\ Len(newAliceBits) = Len(newResults)
        /\ Len(newResults) <= Len(bobResults)
        /\ \A i \in KeptPositions : \A b \in 1..Width :
              /\ newResults[Width * (Rank(i) - 1) + b] = bobResults[Width * (i - 1) + b]
              /\ newAliceBits[Width * (Rank(i) - 1) + b] = aliceBits[Width * (i - 1) + b]

C5_Witness ==
    /\ pipeline = "EntIdeal" /\ pc = "returned"
    /\ Len(aliceBases) = 2
    /\ aliceBases[1] # bobBases[1] /\ aliceBases[2] = bobBases[2]
    /\ bobResults = <<0, 0, 1, 0>> /\ aliceBits = <<1, 1, 0, 1>>
    /\ newResults = <<1, 0>> /\ newAliceBits = <<0, 1>>

\* C6: in the BB84 driver every value in allQBER and in the result file is a
\* number in [0,1] and the running sum is a number; a value is logged only from
\* a call whose sifted key is non-empty, and a call that returned "null" is
\* followed by another call with nothing logged.
C6_LoggedInv ==
    IsBB84(pipeline) =>
        /\ \A i \in 1..Len(allQBER) : InUnit(allQBER[i])
        /\ \A i \in 1..Len(f.lines) : InUnit(f.lines[i].text)
        /\ avgQBER.tag = "num" /\ FracLeq(Zero, avgQBER)
C6_LoggedStep ==
    IsBB84(pipeline) =>
        /\ (allQBER' # allQBER \/ f' # f \/ avgQBER' # avgQBER) =>
              (pc = "close" \/ (Len(newResults) > 0 /\ InUnit(QBER)
                                /\ allQBER' = Append(allQBER, QBER)))
        /\ (pc = "while" /\ QBER = Null) => pc' = "call"
C6_SentinelNeverLogged == []C6_LoggedInv /\ [][C6_LoggedStep]_vars

C6_Witness ==
    /\ IsBB84(pipeline) /\ pc = "done"
    /\ calls > numTests
    /\ Len(allQBER) = numTests /\ Len(f.lines) = numTests

Range(seq) == {seq[i] : i \in DOMAIN seq}
RunsOf(id) == Len(circuits[id].ran)

\* No eavesdropper acted: the receiver decoded the objects the sender encoded,
\* they are the only circuits and their only run is the receiver's.
NoEveStage ==
    /\ eveBases = <<>> /\ eveResults = <<>> /\ eveMessage = <<>>
    /\ received = message
    /\ DOMAIN circuits = Range(message)
    /\ \A id \in Range(message) : RunsOf(id) = 1

\* The eavesdropper acted: she ran the sender's objects, and the receiver
\* decoded only the objects she built from her results and her own choices.
EveStageRan ==
    /\ DOMAIN eveBases = Positions(pipeline)
    /\ Len(eveResults) = BitCount(pipeline)
    /\ received = eveMessage
    /\ Range(received) \cap Range(message) = {}
    /\ \A id \in Range(message) : RunsOf(id) = 1
    /\ \A id \in Range(received) : RunsOf(id) = 1
    /\ \A i \in DOMAIN received :
          LET built == Encode(pipeline, eveResults, eveBases)[i]
          IN SubSeq(circuits[received[i]].ops, 1, Len(built.ops)) = built.ops

\* C7 as claimed: in both pipelines the toggle selects the stage.
C7_ToggleSelectsInBoth ==
    Measured => IF evePresent THEN EveStageRan ELSE NoEveStage

\* C7: in the entanglement pipeline the module-level toggle evePresent selects
\* the intercept-and-resend stage (off: no eavesdropper decode or re-encode,
\* the receiver decodes the sender's circuits; on: the receiver decodes only
\* the eavesdropper's re-encoded circuits); the BB84 script has no toggle and
\* always runs the stage.
C7_ToggleSelectsInEntanglement ==
    Measured => IF IsBB84(pipeline) \/ evePresent THEN EveStageRan ELSE NoEveStage

C7_Witness ==
    /\ pipeline = "EntIdeal" /\ ~evePresent /\ pc = "returned"
    /\ NoEveStage
    /\ aliceBases # bobBases

FracMul(x, y) == Frac(x.n * y.n, x.d * y.d)
TotalWeight(qc) == Weight(qc, <<0>>) + Weight(qc, <<1>>)
Prob(qc, bit) == Frac(Weight(qc, <<bit>>), TotalWeight(qc))

\* Probability that the receiver, measuring in the sender's basis a, reads the
\* complement of the sender's bit when the eavesdropper measured in basis e.
ErrorProb(bit, a, e) ==
    LET sent == MeasureQubit(EncodeQubit(bit, a), e)
        resent(m) == MeasureQubit(EncodeQubit(m, e), a)
        via(m) == FracMul(Prob(sent, m), Prob(resent(m), 1 - bit))
    IN FracAdd(via(0), via(1))

\* Mean of ErrorProb over the eight equiprobable (bit, a, e).
ExpectedError ==
    LET over_e(bit, a) == FracAdd(ErrorProb(bit, a, 0), ErrorProb(bit, a, 1))
        over_a(bit) == FracAdd(over_e(bit, 0), over_e(bit, 1))
    IN FracDiv(FracAdd(over_a(0), over_a(1)), 8)

\* C8: BB84 with the eavesdropper: at a sifted position the receiver's bit is
\* the sender's bit when the eavesdropper's basis equals theirs, and both bits
\* have equal weight in the circuit the receiver measures when it differs; the
\* error probability per sifted position, averaged over the equiprobable
\* bits, bases and outcomes, is exactly 1/4.
C8_InterceptResendQuarter ==
    /\ (IsBB84(pipeline) /\ Measured) =>
          \A i \in 1..numBits :
             aliceBases[i] = bobBases[i] =>
                LET qc == circuits[received[i]]
                IN IF eveBases[i] = aliceBases[i]
                     THEN /\ bobResults[i] = aliceBits[i]
                          /\ Weight(qc, <<1 - aliceBits[i]>>) = 0
                          /\ ErrorProb(aliceBits[i], aliceBases[i], eveBases[i]) = Zero
                     ELSE /\ Weight(qc, <<0>>) = Weight(qc, <<1>>)
                          /\ Weight(qc, <<0>>) > 0
                          /\ ErrorProb(aliceBits[i], aliceBases[i], eveBases[i]) = Frac(1, 2)
    /\ ExpectedError = Frac(1, 4)

C8_Witness ==
    /\ IsBB84(pipeline) /\ pc = "returned"
    /\ aliceBases[1] = bobBases[1] /\ eveBases[1] # aliceBases[1]
    /\ bobResults[1] # aliceBits[1]
    /\ aliceBases[2] = bobBases[2] /\ eveBases[2] = aliceBases[2]
    /\ QBER = Frac(1, 2)

\* C9: the entanglement driver calls runProtocol exactly once per trial, never
\* repeats a call, and ends after exactly numTests calls.  The BB84 driver
\* answers the sentinel with another call, whatever the number of repeats, and
\* logs nothing meanwhile; it ends if every call is eventually followed by a
\* non-sentinel result, and a run that never ends stays in one trial for ever.
C9_EntOncePerTrial ==
    ~IsBB84(pipeline) =>
        /\ retries = 0
        /\ pc # "while"
        /\ calls = (IF pc = "log" THEN t + 1 ELSE t)
        /\ pc = "done" => calls = numTests
C9_RetryStep ==
    (pc = "while" /\ QBER = Null) =>
        /\ pc' = "call"
        /\ UNCHANGED results
C9_DriverProgress ==
    /\ []C9_EntOncePerTrial
    /\ [][C9_RetryStep]_vars
    /\ (~IsBB84(pipeline) => <>(pc = "done"))
    /\ (IsBB84(pipeline) =>
           ([](pc = "call" => <>(pc = "while" /\ QBER # Null)) => <>(pc = "done")))
    /\ (IsBB84(pipeline) =>
           (\/ <>(pc = "done")
            \/ \E k \in 0..(numTests - 1) :
                  <>[](t = k /\ Len(allQBER) = k /\ pc \in {"call", "while"})))

C9_Witness ==
    /\ IsBB84(pipeline) /\ pc = "while"
    /\ retries = MaxRetries
    /\ QBER = Null
    /\ t < numTests

RECURSIVE SumUpTo(_, _)
SumUpTo(seq, k) == IF k = 0 THEN Zero ELSE FracAdd(SumUpTo(seq, k - 1), seq[k])

\* C10: after k completed trials allQBER and the result file hold exactly k
\* entries, the file's lines being the list's values in order; a step leaves
\* the earlier entries as they are and appends at most the QBER of the trial
\* just completed; the running sum is the sum of the entries; at the end there
\* are numTests entries and the average is their sum divided by numTests.
C10_Inv ==
    /\ Len(allQBER) = t /\ Len(f.lines) = t
    /\ \A i \in 1..t : f.lines[i] = Line(allQBER[i])
    /\ pc # "done" => avgQBER = SumUpTo(allQBER, t)
    /\ pc \in {"close", "done"} => t = numTests
    /\ pc = "done" => /\ avgQBER = FracDiv(SumUpTo(allQBER, numTests), numTests)
                      /\ ~f.open
C10_Step ==
    /\ \A i \in 1..Len(allQBER) : allQBER'[i] = allQBER[i] /\ f.lines'[i] = f.lines[i]
    /\ \/ allQBER' = allQBER /\ f.lines' = f.lines
       \/ /\ allQBER' = Append(allQBER, QBER) /\ f.lines' = Append(f.lines, Line(QBER))
          /\ t' = t + 1
C10_AggregateAppendOnly == []C10_Inv /\ [][C10_Step]_vars

C10_Witness ==
    /\ pc = "done"
    /\ Len(allQBER) = numTests
    /\ allQBER[1] # allQBER[2]
    /\ avgQBER # Zero

\* Amplitude of |x y> (x the pair's first qubit, y its second) in a Bell state.
BellStates == {"Phi+", "Phi-", "Psi+", "Psi-"}
BellAmp(s, x, y) ==
    CASE s = "Phi+" -> (IF x = y THEN 1 ELSE 0)
      [] s = "Phi-" -> (IF x = y THEN (IF x = 0 THEN 1 ELSE 0 - 1) ELSE 0)
      [] s = "Psi+" -> (IF x # y THEN 1 ELSE 0)
      [] s = "Psi-" -> (IF x # y THEN (IF x = 0 THEN 1 ELSE 0 - 1) ELSE 0)

\* The 4-qubit state with pair1 in Bell state s1 and pair2 in Bell state s2.
PairState(s1, s2, pair1, pair2) ==
    [k \in 0..15 |-> BellAmp(s1, Bit(k, pair1[1]), Bit(k, pair1[2]))
                     * BellAmp(s2, Bit(k, pair2[1]), Bit(k, pair2[2]))]

\* psi and phi are the same state: equal up to a nonzero factor.
SameState(psi, phi) ==
    /\ \E k \in DOMAIN psi : psi[k] # 0
    /\ \E k \in DOMAIN phi : phi[k] # 0
    /\ \A j, k \in DOMAIN psi : psi[j] * phi[k] = psi[k] * phi[j]

\* The Bell states <<first pair, second pair>> of the stated mapping.
StatedBell(b0, b1) ==
    IF b0 = 0 /\ b1 = 0 THEN <<"Phi+", "Phi-">>
    ELSE IF b0 = 0 /\ b1 = 1 THEN <<"Phi-", "Phi+">>
    ELSE IF b0 = 1 /\ b1 = 0 THEN <<"Psi+", "Psi-">>
    ELSE <<"Psi-", "Psi+">>

\* The sender's circuit of block i is as encodeMessage built it.
AsEncoded(i) == RunsOf(message[i]) = 0

\* The Bell states <<first pair, second pair>> the circuit of block i is in.
BellOf(i) ==
    {st \in BellStates \X BellStates :
        SameState(FinalState(circuits[message[i]]),
                  PairState(st[1], st[2], Pairing(aliceBases[i])[1],
                            Pairing(aliceBases[i])[2]))}

\* C11: for every pairing, the gates encodeMessage applies to the two Phi+
\* pairs leave <<first pair, second pair>> in the Bell states of the mapping
\* (0,0) -> Phi+,Phi-; (0,1) -> Phi-,Phi+; (1,0) -> Psi+,Psi-;
\* (1,1) -> Psi-,Psi+.
C11_StatedBellMapping ==
    (~IsBB84(pipeline) /\ message # <<>>) =>
        \A i \in 1..numPairings :
            AsEncoded(i) =>
                BellOf(i) = {StatedBell(aliceBits[2 * i - 1], aliceBits[2 * i])}

\* What the gates of encodeMessage produce instead.
EncodedBell(b0, b1) ==
    IF b0 = 0 /\ b1 = 0 THEN <<"Phi+", "Psi+">>
    ELSE IF b0 = 0 /\ b1 = 1 THEN <<"Psi+", "Phi+">>
    ELSE IF b0 = 1 /\ b1 = 0 THEN <<"Phi-", "Psi-">>
    ELSE <<"Psi-", "Phi-">>

C11_EncodedBellMapping ==
    (~IsBB84(pipeline) /\ message # <<>>) =>
        \A i \in 1..numPairings :
            AsEncoded(i) =>
                BellOf(i) = {EncodedBell(aliceBits[2 * i - 1], aliceBits[2 * i])}

\* The operations of qc begin with those of built.
BuiltAs(qc, built) ==
    /\ Len(qc.ops) >= Len(built.ops)
    /\ SubSeq(qc.ops, 1, Len(built.ops)) = built.ops

\* Every run of qc was made with all of qc's operations already appended.
RunLast(qc) == \A r \in DOMAIN qc.ran : qc.ran[r] = Len(qc.ops)

\* C12: every circuit object is run at most once and holds no operation
\* appended after its run, with and without the eavesdropper; the sender's
\* objects are the ones encoded from her bits; after the eavesdropper's decode
\* the sender's objects have all been run, the objects handed on are new ones,
\* exactly as encoded from the eavesdropper's results with the choices she
\* decoded with, not yet run, and they are the only ones the receiver decodes.
C12_CircuitLifecycle ==
    /\ \A id \in DOMAIN circuits :
          /\ RunsOf(id) <= 1
          /\ RunLast(circuits[id])
    /\ \A i \in DOMAIN message :
          BuiltAs(circuits[message[i]], Encode(pipeline, aliceBits, aliceBases)[i])
    /\ eveMessage # <<>> =>
          /\ Range(eveMessage) \cap Range(message) = {}
          /\ \A id \in Range(message) : RunsOf(id) = 1
          /\ \A i \in DOMAIN eveMessage :
                BuiltAs(circuits[eveMessage[i]], Encode(pipeline, eveResults, eveBases)[i])
          /\ pc = "bob" =>
                \A i \in DOMAIN eveMessage :
                    circuits[eveMessage[i]] = Encode(pipeline, eveResults, eveBases)[i]
    /\ Measured =>
          /\ received = (IF eveMessage # <<>> THEN eveMessage ELSE message)
          /\ \A id \in DOMAIN circuits : RunsOf(id) = 1

C12_Witness ==
    /\ pipeline = "EntIdeal" /\ evePresent /\ pc = "returned"
    /\ eveBases # aliceBases /\ eveResults # aliceBits
    /\ Len(circuits) = 2 * numPairings
    /\ received = eveMessage
    /\ \A id \in DOMAIN circuits : circuits[id].ran = <<Len(circuits[id].ops)>>

====
